---- MODULE Spec2Model ----
(***************************************************************************)
(* strapi-cache: the GraphQL cache middleware, the cache-key functions     *)
(* and the two cache providers (in-memory LRU, Redis).                     *)
(*                                                                         *)
(* Strings of the program are sequences of tokens; a token stands for a    *)
(* character or for a fixed word ("password", "IntrospectionQuery").       *)
(* An optional value is a sequence of length 0 (absent: null, undefined)   *)
(* or 1 (present).                                                         *)
(***************************************************************************)
EXTENDS Integers, Sequences, FiniteSets, TLC

(* ----------------------------- bounds ---------------------------------- *)

\* Requests the server accepts in one behaviour.
MaxRequests == 2

\* Request slots: the requests that can be in flight at the same time.
Reqs == {"r1", "r2"}

(* ------------------------- optional values ----------------------------- *)

None == <<>>

Some(x) == <<x>>

IsSome(o) == Len(o) > 0

Get(o) == o[1]

(* ------------------------------ strings -------------------------------- *)

QUOTE == "\""

SPACE == " "

\* s.includes(word), for a one-token word
Includes(s, word) == \E i \in 1..Len(s) : s[i] = word

\* s.startsWith(prefix)
StartsWith(s, prefix) ==
    /\ Len(s) >= Len(prefix)
    /\ \A i \in 1..Len(prefix) : s[i] = prefix[i]

\* The payloads requests carry.
PayloadQuery == <<"{", "articles", "}">>

PayloadLoginA == <<"{", QUOTE, "password", QUOTE, ":", QUOTE, "a", QUOTE, "}">>

PayloadLoginB == <<"{", QUOTE, "password", QUOTE, ":", SPACE, QUOTE, "b", "b", QUOTE, "}">>

PayloadIntrospection == <<"{", "IntrospectionQuery", "}">>

Payloads == {PayloadQuery, PayloadLoginA, PayloadLoginB, PayloadIntrospection}

(* --------------------------- cache keys -------------------------------- *)

\* The regular expression /"password":\s*"[^"]*"/ matched at position i of s:
\* the position after the match, or 0 when it does not match there.
RECURSIVE SkipSpaces(_, _)
SkipSpaces(s, i) ==
    IF i <= Len(s) /\ s[i] = SPACE THEN SkipSpaces(s, i + 1) ELSE i

RECURSIVE SkipNonQuotes(_, _)
SkipNonQuotes(s, i) ==
    IF i <= Len(s) /\ s[i] # QUOTE THEN SkipNonQuotes(s, i + 1) ELSE i

PasswordMatchEnd(s, i) ==
    IF /\ i + 3 <= Len(s)
       /\ s[i] = QUOTE /\ s[i + 1] = "password" /\ s[i + 2] = QUOTE /\ s[i + 3] = ":"
    THEN LET j == SkipSpaces(s, i + 4)
         IN  IF j <= Len(s) /\ s[j] = QUOTE
             THEN LET k == SkipNonQuotes(s, j + 1)
                  IN  IF k <= Len(s) THEN k + 1 ELSE 0
             ELSE 0
    ELSE 0

Placeholder == <<QUOTE, "password", QUOTE, ":", QUOTE, "*", "*", "*", QUOTE>>

\* payload.replace(/"password":\s*"[^"]*"/g, '"password":"***"')
RECURSIVE SanitizeFrom(_, _)
SanitizeFrom(s, i) ==
    IF i > Len(s) THEN <<>>
    ELSE LET e == PasswordMatchEnd(s, i)
         IN  IF e > 0 THEN Placeholder \o SanitizeFrom(s, e)
             ELSE <<s[i]>> \o SanitizeFrom(s, i + 1)

Sanitize(payload) == SanitizeFrom(payload, 1)

\* createHash('sha256').update(x).digest('base64url'): the digest is taken as
\* injective, so the digest of x is represented by x itself under a tag.
Sha256(x) == <<"sha256">> \o x

GraphqlKeyIgnoringPayload(payload) == <<"graphql:">> \o Sha256(<<>>)

generateGraphqlCacheKey(payload) == <<"graphql:">> \o Sha256(Sanitize(payload))

\* A REST request, as generateCacheKey reads it: the method, the url, the
\* query (an object: its properties as [name, value] records in insertion
\* order) and the headers (absent, or a value, per header name).

\* JSON.stringify of a string without characters to escape.
JsonString(str) == <<QUOTE>> \o str \o <<QUOTE>>

\* The properties JSON.stringify writes: those whose value is not undefined,
\* in insertion order.
Defined(props) == SelectSeq(props, LAMBDA pr : IsSome(pr.value))

RECURSIVE JsonMembers(_)
JsonMembers(props) ==
    IF props = <<>> THEN <<>>
    ELSE JsonString(Head(props).name) \o <<":">> \o JsonString(Get(Head(props).value))
             \o (IF Tail(props) = <<>> THEN <<>> ELSE <<",">> \o JsonMembers(Tail(props)))

\* JSON.stringify(object)
JsonStringifyObject(props) == <<"{">> \o JsonMembers(Defined(props)) \o <<"}">>

\* Object.keys(query).length > 0 ? JSON.stringify(query) : ''
QueryString(query) == IF Len(query) > 0 THEN JsonStringifyObject(query) ELSE <<>>

\* Every header of the request, authorization included.
AllHeaders(headers) ==
    << [name |-> <<"accept-language">>, value |-> headers.acceptLanguage],
       [name |-> <<"accept">>, value |-> headers.accept],
       [name |-> <<"user-agent">>, value |-> headers.userAgent],
       [name |-> <<"authorization">>, value |-> headers.authorization],
       [name |-> <<"x-request-id">>, value |-> headers.requestId] >>

\* relevantHeaders: accept-language, accept and user-agent
RelevantHeaders(headers) ==
    << [name |-> <<"accept-language">>, value |-> headers.acceptLanguage],
       [name |-> <<"accept">>, value |-> headers.accept],
       [name |-> <<"user-agent">>, value |-> headers.userAgent] >>

\* The key material without the query string.
KeyDataWithoutQuery(ctx) ==
    <<ctx.method, ":">> \o ctx.url \o <<":">> \o <<":">>
        \o JsonStringifyObject(RelevantHeaders(ctx.headers))

\* keyData: `${method}:${url}:${queryString}:${headersString}`
KeyData(ctx) ==
    <<ctx.method, ":">> \o ctx.url \o <<":">> \o QueryString(ctx.query) \o <<":">>
        \o JsonStringifyObject(RelevantHeaders(ctx.headers))

generateCacheKey(ctx) == <<"cache:">> \o Sha256(KeyData(ctx))

(* ------------------------ response bodies ------------------------------ *)

\* A body is a materialized value (kind "value": an object or a string the
\* pipeline set), a Stream (kind "stream": chunks of bytes, possibly failing
\* while it is read), a Buffer (kind "buffer": bytes) or a decoded text (kind
\* "text": characters). origin is a provenance tag: the redacted payload of
\* the request the pipeline produced the body for.
NoBody == [kind |-> "none", data |-> <<>>, chunks |-> <<>>, broken |-> FALSE, origin |-> <<>>]

ValueBody(v, o) == [kind |-> "value", data |-> <<v>>, chunks |-> <<>>, broken |-> FALSE, origin |-> o]

StreamBody(c, b, o) == [kind |-> "stream", data |-> <<>>, chunks |-> c, broken |-> b, origin |-> o]

BufferBody(d, o) == [kind |-> "buffer", data |-> d, chunks |-> <<>>, broken |-> FALSE, origin |-> o]

TextBody(d, o) == [kind |-> "text", data |-> d, chunks |-> <<>>, broken |-> FALSE, origin |-> o]

\* ctx.body instanceof Stream
IsStream(body) == body.kind = "stream"

RECURSIVE Flatten(_)
Flatten(chunks) ==
    IF chunks = <<>> THEN <<>> ELSE Head(chunks) \o Flatten(Tail(chunks))

\* The bytes a client reads from a body.
Bytes(body) == IF body.kind = "stream" THEN Flatten(body.chunks) ELSE body.data

\* streamToBuffer(stream): the concatenation of the chunks; rejects when the
\* stream emits an error.
streamToBuffer(body) ==
    IF body.broken THEN None ELSE Some(BufferBody(Flatten(body.chunks), body.origin))

\* First byte of a compressed buffer.
GzipMagic == 9

\* decompressBuffer(buf, contentEncoding): reverses the transport compression;
\* rejects on data that is not in the announced encoding.
decompressBuffer(buf, contentEncoding) ==
    IF contentEncoding = "gzip"
    THEN IF Len(buf.data) > 0 /\ Head(buf.data) = GzipMagic
         THEN Some(BufferBody(Tail(buf.data), buf.origin))
         ELSE None
    ELSE Some(buf)

\* Offset of the character codes from the byte values.
CharBase == 100

\* decodeBufferToText(buffer): each byte becomes a character.
decodeBufferToText(buf) ==
    TextBody([i \in 1..Len(buf.data) |-> buf.data[i] + CharBase], buf.origin)

(* ------------------------- response headers ---------------------------- *)

\* Plugin configuration of the header policy (the documented configuration).
cacheHeaders == TRUE

cacheHeadersDenyList == {"access-control-allow-origin", "content-encoding"}

cacheHeadersAllowList == {"content-type", "content-security-policy"}

\* getHeadersToStore(ctx, cacheHeaders, allowList, denyList): headers are a
\* set of <<name, value>> pairs.
getHeadersToStore(headers, enabled, allowList, denyList) ==
    IF ~enabled THEN {}
    ELSE {h \in headers :
            /\ h[1] \notin denyList
            /\ (allowList = {} \/ h[1] \in allowList)}

ResponseHeaders(enc) ==
    {<<"content-type", "application/json">>}
        \cup (IF enc = "identity" THEN {} ELSE {<<"content-encoding", enc>>})

(* --------------------------- the providers ----------------------------- *)

\* The key a caller hands to a provider operation is any value: a string, or
\* null, undefined or a number.
StringKey(s) == [type |-> "string", str |-> s]

NullKey == [type |-> "null", str |-> <<>>]

UndefinedKey == [type |-> "undefined", str |-> <<>>]

NumberKey == [type |-> "number", str |-> <<"4", "2">>]

\* The string keys callers use.
ProvStrings == {<<"cache:", "a">>, <<"cache:", "b">>, <<"graphql:", "c">>}

\* !key: null, undefined and the empty string are falsy.
Falsy(key) == key.type \in {"null", "undefined"} \/ (key.type = "string" /\ key.str = <<>>)

\* The key guard without the typeof check.
InvalidKeyFalsyOnly(key) == Falsy(key)

\* !key || typeof key !== 'string'
InvalidKey(key) == Falsy(key) \/ key.type # "string"

\* The backing store is a sequence of [key, val, at, ttl] records, the least
\* recently used first (the order matters to the memory provider only). A
\* stored val is [body, headers, json]: json tells a serialized (Redis) value.
\* at is the time (ms) the age of the entry counts from, ttl its time to live
\* (ms), 0 for an entry that does not expire.

Keys(store) == {store[i].key : i \in 1..Len(store)}

Lookup(store, key) ==
    IF key \in Keys(store)
    THEN Some((CHOOSE i \in 1..Len(store) : store[i].key = key))
    ELSE None

Without(store, key) == SelectSeq(store, LAMBDA e : e.key # key)

\* The content of the store, as a set of [key, val] records.
Content(store) == {[key |-> store[i].key, val |-> store[i].val] : i \in 1..Len(store)}

\* An operation that takes the store from before to after changes its content.
Changes(before, after) == Content(before) # Content(after)

\* An entry is stale (LRUCache) or expired (Redis) when more than its time to
\* live has passed.
Stale(e, now) == e.ttl > 0 /\ now - e.at > e.ttl

\* The entries that have not expired.
Live(store, now) == SelectSeq(store, LAMBDA e : ~Stale(e, now))

\* JSON.stringify(val) and JSON.parse(data) on a cache entry: a Buffer is
\* serialized as an object {type: 'Buffer', data: [...]} and parsed as that
\* object.
JsonStringify(val) ==
    [body |-> IF val.body.kind = "buffer"
              THEN [val.body EXCEPT !.kind = "value"]
              ELSE val.body,
     headers |-> val.headers,
     json |-> TRUE]

JsonParse(data) == [data EXCEPT !.json = FALSE]

\* LRUCache.get(key) with updateAgeOnGet: the value, and the key becomes the
\* most recently used and its age starts again. A stale entry is deleted, and
\* returned only when allowStale is set.
LruGetKeepsOrder(store, key, now, allowStale) ==
    LET at == Lookup(store, key)
    IN  IF ~IsSome(at) THEN [result |-> None, store |-> store]
        ELSE IF Stale(store[Get(at)], now)
        THEN [result |-> IF allowStale THEN Some(store[Get(at)].val) ELSE None,
              store  |-> Without(store, key)]
        ELSE [result |-> Some(store[Get(at)].val),
              store  |-> [store EXCEPT ![Get(at)].at = now]]

LruGet(store, key, now, allowStale) ==
    LET at == Lookup(store, key)
    IN  IF ~IsSome(at) THEN [result |-> None, store |-> store]
        ELSE IF Stale(store[Get(at)], now)
        THEN [result |-> IF allowStale THEN Some(store[Get(at)].val) ELSE None,
              store  |-> Without(store, key)]
        ELSE [result |-> Some(store[Get(at)].val),
              store  |-> Without(store, key) \o <<[store[Get(at)] EXCEPT !.at = now]>>]

\* A set that adds the entry and keeps the one the key had.
LruSetAppends(store, key, val, max, ttl, now) ==
    store \o <<[key |-> key, val |-> val, at |-> now, ttl |-> ttl]>>

\* LRUCache.set(key, val): replaces the value of the key, makes it the most
\* recently used, starts its age, and evicts the least recently used entries
\* beyond max.
LruSet(store, key, val, max, ttl, now) ==
    LET put == Without(store, key) \o <<[key |-> key, val |-> val, at |-> now, ttl |-> ttl]>>
    IN  IF Len(put) > max THEN SubSeq(put, Len(put) - max + 1, Len(put)) ELSE put

\* LRUCache.keys(): the keys of the entries that are not stale (all of them
\* when allowStale is set).
LruKeys(store, now, allowStale) == Keys(IF allowStale THEN store ELSE Live(store, now))

\* What a provider operation gives its caller: a value, null (or undefined),
\* true or false, the cache object (LRUCache.set returns the cache), a list of
\* keys, or an exception.
NullResult == [outcome |-> "null", value |-> None]

ThrowResult == [outcome |-> "throw", value |-> None]

ValueResult(v) == [outcome |-> "value", value |-> Some(v)]

TrueResult == [outcome |-> "true", value |-> None]

FalseResult == [outcome |-> "false", value |-> None]

CacheResult == [outcome |-> "cache", value |-> None]

KeysResult == [outcome |-> "keys", value |-> None]

\* get ready(): initialized and the store or client constructed (init sets
\* both or neither).
ReadyAlways(isInitialized) == TRUE

Ready(isInitialized) == isInitialized

\* InMemoryCacheProvider.get: the LRU read runs inside the promise executor,
\* that is, during the call. fault tells whether the LRU read throws.
MemoryGetCatch == NullResult

MemoryGet(isInitialized, st, key, fault, now, allowStale) ==
    IF ~Ready(isInitialized) THEN [res |-> NullResult, store |-> st, reached |-> FALSE]
    ELSE IF InvalidKey(key) THEN [res |-> NullResult, store |-> st, reached |-> FALSE]
    ELSE IF fault # "ok" THEN [res |-> MemoryGetCatch, store |-> st, reached |-> FALSE]
    ELSE LET got == LruGet(st, key.str, now, allowStale)
         IN  [res |-> IF IsSome(got.result) THEN ValueResult(Get(got.result)) ELSE NullResult,
              store |-> got.store,
              reached |-> TRUE]

\* InMemoryCacheProvider.set
MemorySetCatch == NullResult

MemorySet(isInitialized, st, key, val, max, ttl, fault, now) ==
    IF ~Ready(isInitialized) THEN [res |-> NullResult, store |-> st, reached |-> FALSE]
    ELSE IF InvalidKey(key) THEN [res |-> NullResult, store |-> st, reached |-> FALSE]
    ELSE IF fault # "ok" THEN [res |-> MemorySetCatch, store |-> st, reached |-> FALSE]
    ELSE [res |-> CacheResult, store |-> LruSet(st, key.str, val, max, ttl, now), reached |-> TRUE]

\* withTimeout(fn, ms): the promise settles as fn's does, or, when the deadline
\* passes first, with the timeout signal (a rejection).
withTimeoutExpired == "timeout"

\* RedisCacheProvider.get, after the guards: how withTimeout(() =>
\* client.get(key), t) settles. reply is "ok" (the client answered), "error"
\* (the client rejected) or "timeout" (the deadline passed first).
RedisGetCatchRethrows == ThrowResult

RedisGetCatch == NullResult

RedisGetSettle(st, key, reply, now) ==
    IF reply = "ok"
    THEN LET at == Lookup(Live(st, now), key)
         IN  IF IsSome(at) THEN ValueResult(JsonParse(Live(st, now)[Get(at)].val)) ELSE NullResult
    ELSE RedisGetCatch

\* The ttl handed to Redis in ms where seconds are expected.
RedisTtlInMs(ttlInMs) == IF ttlInMs > 0 THEN ttlInMs ELSE 0

\* Math.max(0, Math.floor(ttlInMs / 1000))
RedisTtlInS(ttlInMs) == IF ttlInMs \div 1000 > 0 THEN ttlInMs \div 1000 ELSE 0

\* RedisCacheProvider.set, after the guards: how client.set(key, serialized,
\* 'EX', ttlInS), or client.set(key, serialized) when ttlInS is 0, settles.
RedisSetCatch == NullResult

RedisSetSettle(st, key, val, reply, ttlInMs, now) ==
    IF reply = "ok"
    THEN [res |-> ValueResult(val),
          store |-> Without(Live(st, now), key)
                        \o <<[key |-> key, val |-> JsonStringify(val), at |-> now,
                              ttl |-> RedisTtlInS(ttlInMs) * 1000]>>,
          reached |-> TRUE]
    ELSE [res |-> RedisSetCatch, store |-> st, reached |-> FALSE]

\* InMemoryCacheProvider.del: LRUCache.delete(key) tells whether the key was
\* there.
MemoryDel(isInitialized, st, key, fault) ==
    IF ~Ready(isInitialized) THEN [res |-> NullResult, store |-> st, reached |-> FALSE]
    ELSE IF InvalidKey(key) THEN [res |-> NullResult, store |-> st, reached |-> FALSE]
    ELSE IF fault # "ok" THEN [res |-> NullResult, store |-> st, reached |-> FALSE]
    ELSE [res |-> IF key.str \in Keys(st) THEN TrueResult ELSE FalseResult,
          store |-> Without(st, key.str),
          reached |-> TRUE]

\* InMemoryCacheProvider.keys: listed is the array it returns.
MemoryKeys(isInitialized, st, fault, now, allowStale) ==
    IF ~Ready(isInitialized) THEN [res |-> NullResult, listed |-> {}, reached |-> FALSE]
    ELSE IF fault # "ok" THEN [res |-> NullResult, listed |-> {}, reached |-> FALSE]
    ELSE [res |-> KeysResult, listed |-> LruKeys(st, now, allowStale), reached |-> TRUE]

\* The store after del(key) has been called for every key of a set.
RECURSIVE WithoutAll(_, _)
WithoutAll(st, keys) ==
    IF keys = {} THEN st
    ELSE LET k == CHOOSE k \in keys : TRUE
         IN  WithoutAll(Without(st, k), keys \ {k})

\* InMemoryCacheProvider.reset: keys(), then del of every key listed.
MemoryReset(isInitialized, st, fault, now, allowStale) ==
    LET ks == MemoryKeys(isInitialized, st, fault, now, allowStale)
    IN  IF ~Ready(isInitialized) THEN [res |-> NullResult, store |-> st, reached |-> FALSE]
        ELSE IF ks.res = NullResult THEN [res |-> NullResult, store |-> st, reached |-> FALSE]
        ELSE [res |-> TrueResult, store |-> WithoutAll(st, ks.listed), reached |-> TRUE]

\* A regular expression /^source/, with or without the global flag, matches
\* the keys that start with its source.
RegexMatches(re, key) == StartsWith(key, re.source)

\* The key matches at least one of the expressions.
Matches(regExps, key) == \E i \in 1..Len(regExps) : RegexMatches(regExps[i], key)

\* re.test(key): an expression with the global flag searches from its
\* lastIndex, sets lastIndex to the end of the match when it matches, and to
\* 0 when it does not; without the flag lastIndex stays 0.
RegexTest(re, lastIndex, key) ==
    LET hit == (~re.global \/ lastIndex = 0) /\ RegexMatches(re, key)
    IN  [match |-> hit, lastIndex |-> IF re.global /\ hit THEN Len(re.source) ELSE 0]

\* regExps.some((re) => re.test(key)): the expressions are tested in order
\* up to the first that matches. li holds the lastIndex of each expression.
RECURSIVE SomeTest(_, _, _, _)
SomeTest(regExps, li, key, i) ==
    IF i > Len(regExps) THEN [match |-> FALSE, li |-> li]
    ELSE LET t == RegexTest(regExps[i], li[i], key)
             li1 == [li EXCEPT ![i] = t.lastIndex]
         IN  IF t.match THEN [match |-> TRUE, li |-> li1]
             ELSE SomeTest(regExps, li1, key, i + 1)

\* keys.filter((key) => regExps.some((re) => re.test(key))), as a set.
RECURSIVE FilterFrom(_, _, _)
FilterFrom(keys, regExps, li) ==
    IF keys = <<>> THEN {}
    ELSE LET t == SomeTest(regExps, li, Head(keys), 1)
         IN  (IF t.match THEN {Head(keys)} ELSE {}) \cup FilterFrom(Tail(keys), regExps, t.li)

Filter(keys, regExps) == FilterFrom(keys, regExps, [i \in 1..Len(regExps) |-> 0])

\* The order in which LRUCache.keys() yields the keys: the most recently
\* used first.
KeyList(st) == [i \in 1..Len(st) |-> st[Len(st) + 1 - i].key]

\* The orders in which the keys of a set can be listed.
Orders(keys) ==
    {f \in [1..Cardinality(keys) -> keys] : \A i, j \in 1..Cardinality(keys) : f[i] = f[j] => i = j}

\* InMemoryCacheProvider.clearByRegexp: (keys() || []), then del of every
\* key that matches one of the expressions. It returns undefined.
MemoryClearByRegexp(isInitialized, st, regExps, fault, now, allowStale) ==
    LET ks == MemoryKeys(isInitialized, st, fault, now, allowStale)
    IN  IF ~Ready(isInitialized) THEN [res |-> NullResult, store |-> st, reached |-> FALSE]
        ELSE [res |-> NullResult,
              store |-> IF ks.reached
                        THEN WithoutAll(st, Filter(KeyList(IF allowStale THEN st
                                                            ELSE Live(st, now)), regExps))
                        ELSE st,
              reached |-> ks.reached]

\* RedisCacheProvider.get, the whole call. reply is how the client's get
\* settles, or the timeout signal.
RedisGet(isInitialized, st, key, reply, now) ==
    IF ~Ready(isInitialized) THEN [res |-> NullResult, store |-> st, reached |-> FALSE]
    ELSE IF InvalidKey(key) THEN [res |-> NullResult, store |-> st, reached |-> FALSE]
    ELSE [res |-> RedisGetSettle(st, key.str, reply, now), store |-> st,
          reached |-> (reply = "ok")]

\* RedisCacheProvider.set, the whole call.
RedisSet(isInitialized, st, key, val, reply, ttlInMs, now) ==
    IF ~Ready(isInitialized) THEN [res |-> NullResult, store |-> st, reached |-> FALSE]
    ELSE IF InvalidKey(key) THEN [res |-> NullResult, store |-> st, reached |-> FALSE]
    ELSE RedisSetSettle(st, key.str, val, reply, ttlInMs, now)

\* RedisCacheProvider.del: client.del(key), then true.
RedisDel(isInitialized, st, key, reply, now) ==
    IF ~Ready(isInitialized) THEN [res |-> NullResult, store |-> st, reached |-> FALSE]
    ELSE IF InvalidKey(key) THEN [res |-> NullResult, store |-> st, reached |-> FALSE]
    ELSE IF reply # "ok" THEN [res |-> NullResult, store |-> st, reached |-> FALSE]
    ELSE [res |-> TrueResult, store |-> Without(Live(st, now), key.str), reached |-> TRUE]

\* RedisCacheProvider.keys: client.keys('*').
RedisKeys(isInitialized, st, reply, now) ==
    IF ~Ready(isInitialized) THEN [res |-> NullResult, listed |-> {}, reached |-> FALSE]
    ELSE IF reply # "ok" THEN [res |-> NullResult, listed |-> {}, reached |-> FALSE]
    ELSE [res |-> KeysResult, listed |-> Keys(Live(st, now)), reached |-> TRUE]

\* RedisCacheProvider.reset: client.flushdb(), then true.
RedisReset(isInitialized, st, reply) ==
    IF ~Ready(isInitialized) THEN [res |-> NullResult, store |-> st, reached |-> FALSE]
    ELSE IF reply # "ok" THEN [res |-> NullResult, store |-> st, reached |-> FALSE]
    ELSE [res |-> TrueResult, store |-> <<>>, reached |-> TRUE]

\* RedisCacheProvider.clearByRegexp: keys(), then del of every key that
\* matches one of the expressions. reply is how keys settles, delReply how
\* the dels settle, order the order in which the server lists the keys.
RedisClearByRegexp(isInitialized, st, regExps, reply, delReply, order, now) ==
    LET ks == RedisKeys(isInitialized, st, reply, now)
    IN  IF ~Ready(isInitialized) THEN [res |-> NullResult, store |-> st, reached |-> FALSE]
        ELSE IF ks.res = NullResult THEN [res |-> NullResult, store |-> st, reached |-> FALSE]
        ELSE [res |-> NullResult,
              store |-> IF delReply = "ok"
                        THEN WithoutAll(Live(st, now), Filter(order, regExps))
                        ELSE st,
              reached |-> (delReply = "ok")]

\* How a command sent to the Redis client can end: answered, rejected, or
\* never answered.
RedisReplies == {"ok", "error", "never"}

\* Whether an operation of the LRU store throws.
MemoryFaults == {"ok", "error"}

(* ------------------------ requests and responses ----------------------- *)

\* cache-control and authorization request headers: absent, or a value.
CacheControls == {None, Some(<<"no-cache">>), Some(<<"max-age=0">>)}

Authorizations == {None, Some(<<"Bearer", "t">>)}

Methods == {"POST", "GET"}

Urls == {<<"/graphql">>, <<"/api">>}

Inputs ==
    [payload : Payloads, cacheControl : CacheControls,
     authorization : Authorizations, method : Methods, url : Urls]

\* What the downstream pipeline (await next()) can do with a request: throw,
\* or set a status, a content-encoding and a body. o tags the bodies with the
\* redacted payload of the request.
NoOutcome == [threw |-> FALSE, status |-> 0, enc |-> "identity", body |-> NoBody]

PipelineOutcomes(o) ==
    {[threw |-> TRUE, status |-> 500, enc |-> "identity", body |-> NoBody]}
    \cup {[threw |-> FALSE, status |-> 200, enc |-> "identity", body |-> ValueBody(v, o)] :
            v \in {11, 12}}
    \cup {[threw |-> FALSE, status |-> 500, enc |-> "identity", body |-> ValueBody(13, o)]}
    \cup {[threw |-> FALSE, status |-> 200, enc |-> "identity",
           body |-> StreamBody(<< <<1>>, <<2, 3>> >>, FALSE, o)],
          [threw |-> FALSE, status |-> 200, enc |-> "gzip",
           body |-> StreamBody(<< <<GzipMagic, 2>>, <<1>> >>, FALSE, o)],
          [threw |-> FALSE, status |-> 200, enc |-> "gzip",
           body |-> StreamBody(<< <<1>>, <<2>> >>, FALSE, o)],
          [threw |-> FALSE, status |-> 200, enc |-> "identity",
           body |-> StreamBody(<< <<1>>, <<2>> >>, TRUE, o)]}

\* Plugin configurations: max, ttl (ms), size and allowStale of the memory
\* provider, and cacheAuthorizedRequests.
Configs ==
    [max : {1, 2}, ttl : {1000}, size : {1024}, allowStale : {FALSE},
     cacheAuthorizedRequests : BOOLEAN]

(* ------------------------------ state ---------------------------------- *)

VARIABLES
    ptype,        \* the provider in use: "memory" or "redis"
    config,       \* the plugin configuration
    initialized,  \* the provider's initialized flag
    store,        \* the LRU cache, or the content of the Redis database
    req,          \* per request slot: the middleware's locals and position
    started,      \* number of requests accepted
    clock,        \* the time, in ms
    last,         \* the last call of a provider operation and its result
    hist,         \* what the calls before the last one did
    fn,           \* the arguments and results of the key functions applied
    pend          \* the call of reset that has not returned yet

vars == <<ptype, config, initialized, store, req, started, clock, last, hist, fn, pend>>

\* The clock, the record of the provider calls and the record of the key
\* functions; the middleware's requests run while the clock stands still.
provVars == <<clock, last, hist, fn, pend>>

\* No key function has been applied. a and b are two REST requests, ma and
\* mb their key material, ka and kb their keys; parts are the pieces of two
\* GraphQL payloads that differ in the value of a password field only, ka and
\* kb then their keys, and kp the key of the payload with the placeholder.
NoContext ==
    [method |-> "GET", url |-> <<>>, query |-> <<>>,
     headers |-> [acceptLanguage |-> None, accept |-> None, userAgent |-> None,
                  authorization |-> None, requestId |-> None]]

NoParts == [prefix |-> <<>>, gap |-> <<>>, va |-> <<>>, vb |-> <<>>, suffix |-> <<>>]

NoFn ==
    [op |-> "none", a |-> NoContext, b |-> NoContext, parts |-> NoParts,
     ma |-> <<>>, mb |-> <<>>, ka |-> <<>>, kb |-> <<>>, kp |-> <<>>]

\* No call of reset is in flight. phase: "listed" after reset has awaited
\* keys(), "deleted" after it has called del for every key listed; listed:
\* the keys it listed; wrote: the [key, val] the calls of set have written
\* since reset was called.
NoPend == [phase |-> "none", listed |-> {}, wrote |-> {}]

\* No provider operation has been called.
\* over: the call was a set that replaced another value of its key; evicted:
\* the other keys that left the store during a set.
NoCall ==
    [op |-> "none", key |-> NullKey, val |-> None, res |-> NullResult,
     reached |-> FALSE, built |-> FALSE, listed |-> {}, over |-> FALSE, evicted |-> {}]

\* hist.initThrew: a call of init has thrown. hist.prior: when the last call
\* is a get and the call before it was a set of the same key that wrote, the
\* value of that set; hist.over: that set replaced another value. hist.used:
\* for the memory provider, the keys in the store, the one whose last set or
\* answered get is the oldest first. hist.setAt: per key in the store, the
\* time of its last set; hist.freshAt: the time of its last set or, for the
\* memory provider, of its last answered get (-1 for a key not in the store).
NoHist ==
    [initThrew |-> FALSE, prior |-> None, over |-> FALSE, used |-> <<>>,
     setAt |-> [k \in ProvStrings |-> -1], freshAt |-> [k \in ProvStrings |-> -1]]

\* A request slot no request occupies. ctxStatus is Koa's default status.
IdleReq ==
    [phase |-> "idle", payload |-> <<>>, cacheControl |-> None, authorization |-> None,
     method |-> "", url |-> <<>>, key |-> <<>>, path |-> "none",
     getPend |-> "none", cacheEntry |-> NullResult, setPend |-> "none", setVal |-> None, setRes |-> NullResult,
     buf |-> NoBody, pipe |-> NoOutcome,
     ctxStatus |-> 404, ctxBody |-> NoBody, ctxHeaders |-> {},
     getCalls |-> 0, nextCalls |-> 0, setCalls |-> 0,
     threw |-> "none", provOk |-> FALSE, wrote |-> FALSE]

Init ==
    /\ ptype \in {"memory", "redis"}
    /\ config \in Configs
    /\ initialized = FALSE
    /\ store = <<>>
    /\ req = [r \in Reqs |-> IdleReq]
    /\ started = 0
    /\ clock = 0
    /\ last = NoCall
    /\ hist = NoHist
    /\ fn = NoFn
    /\ pend = NoPend

(* --------------------------- provider init ----------------------------- *)

\* Number(config(name)) || dflt
NumberOr(v, dflt) == IF v = 0 THEN dflt ELSE v

DefaultMax == 1000

DefaultTtl == 1000 * 60 * 60

DefaultSize == 1024 * 1024 * 10

\* InMemoryCacheProvider.init / RedisCacheProvider.init: nothing happens when
\* already initialized; the memory provider validates max, ttl and size, the
\* Redis provider constructs its client (which can throw: clientOk).
InitSucceeds(clientOk) ==
    IF ptype = "memory"
    THEN /\ ~(NumberOr(config.max, DefaultMax) <= 0)
         /\ ~(NumberOr(config.ttl, DefaultTtl) < 0)
         /\ ~(NumberOr(config.size, DefaultSize) <= 0)
    ELSE clientOk

ProviderInit ==
    /\ ~initialized
    /\ \E clientOk \in BOOLEAN : initialized' = InitSucceeds(clientOk)
    /\ UNCHANGED <<ptype, config, store, req, started>>
    /\ UNCHANGED provVars

(* --------------------------- the middleware ---------------------------- *)

\* cacheControlHeader && cacheControlHeader.includes('no-cache')
NoCache(q) == IsSome(q.cacheControl) /\ Includes(Get(q.cacheControl), "no-cache")

\* authorizationHeader && !cacheAuthorizedRequests
AuthorizedBypass(q) == IsSome(q.authorization) /\ ~config.cacheAuthorizedRequests

\* No payload is taken for an introspection query.
NeverIntrospection(body) == FALSE

\* body.includes('IntrospectionQuery')
isIntrospectionQuery(body) == Includes(body, "IntrospectionQuery")

\* ctx.method === 'POST' && ctx.status >= 200 && ctx.status < 300 &&
\* url.startsWith('/graphql')
Storable(q) ==
    /\ q.method = "POST"
    /\ q.ctxStatus >= 200
    /\ q.ctxStatus < 300
    /\ StartsWith(q.url, <<"/graphql">>)

\* The cache entry the middleware builds from a body and the response headers.
Entry(body, enc) ==
    [body |-> body,
     headers |-> getHeadersToStore(ResponseHeaders(enc), cacheHeaders,
                                   cacheHeadersAllowList, cacheHeadersDenyList),
     json |-> FALSE]

\* The middleware from its entry to its first await of the provider or of the
\* pipeline: the body is read, an introspection query goes to the pipeline,
\* any other request has its key computed and cacheStore.get(key) called.
Accept(r, in) ==
    /\ req[r].phase = "idle"
    /\ started < MaxRequests
    /\ started' = started + 1
    /\ LET q0 == [IdleReq EXCEPT !.payload = in.payload, !.cacheControl = in.cacheControl,
                                 !.authorization = in.authorization, !.method = in.method,
                                 !.url = in.url]
           key == generateGraphqlCacheKey(in.payload)
           q1 == [q0 EXCEPT !.key = key, !.getCalls = 1, !.phase = "awaitGet"]
       IN  IF isIntrospectionQuery(in.payload)
           THEN /\ req' = [req EXCEPT ![r] = [q0 EXCEPT !.path = "introspection",
                                                        !.phase = "awaitNext"]]
                /\ store' = store
           ELSE IF ptype = "memory"
           THEN \E fault \in MemoryFaults :
                    LET g == MemoryGet(initialized, store, StringKey(key), fault, clock,
                                       config.allowStale)
                    IN  /\ req' = [req EXCEPT ![r] = [q1 EXCEPT !.getPend = "resolved",
                                                               !.cacheEntry = g.res,
                                                               !.provOk = g.reached,
                                                               !.wrote = Changes(store, g.store)]]
                        /\ store' = g.store
           ELSE IF ~Ready(initialized) \/ InvalidKey(StringKey(key))
           THEN /\ req' = [req EXCEPT ![r] = [q1 EXCEPT !.getPend = "resolved"]]
                /\ store' = store
           ELSE \E reply \in RedisReplies :
                    /\ req' = [req EXCEPT ![r] = [q1 EXCEPT !.getPend = reply]]
                    /\ store' = store
    /\ UNCHANGED <<ptype, config, initialized>>
    /\ UNCHANGED provVars

\* A request arrives while no other is in flight.
Start(r) ==
    /\ \A o \in Reqs : req[o].phase = "idle"
    /\ \E in \in Inputs : Accept(r, in)

\* AfterGet without the return that ends the hit path.
AfterGetHitFallsThrough(q, res) ==
    IF res.outcome = "throw"
    THEN [q EXCEPT !.phase = "failed", !.threw = "provider"]
    ELSE IF AuthorizedBypass(q)
    THEN [q EXCEPT !.cacheEntry = res, !.path = "authorized", !.phase = "awaitNext"]
    ELSE IF res.outcome = "value" /\ ~NoCache(q)
    THEN [q EXCEPT !.cacheEntry = res, !.path = "hit", !.phase = "awaitNext",
                   !.ctxStatus = 200,
                   !.ctxBody = Get(res.value).body,
                   !.ctxHeaders = IF cacheHeaders THEN Get(res.value).headers ELSE {}]
    ELSE [q EXCEPT !.cacheEntry = res, !.path = "miss", !.phase = "awaitNext"]

\* The middleware after cacheStore.get(key) has settled with res: the
\* authorized bypass, the hit, or the miss.
AfterGet(q, res) ==
    IF res.outcome = "throw"
    THEN [q EXCEPT !.phase = "failed", !.threw = "provider"]
    ELSE IF AuthorizedBypass(q)
    THEN [q EXCEPT !.cacheEntry = res, !.path = "authorized", !.phase = "awaitNext"]
    ELSE IF res.outcome = "value" /\ ~NoCache(q)
    THEN [q EXCEPT !.cacheEntry = res, !.path = "hit", !.phase = "done",
                   !.ctxStatus = 200,
                   !.ctxBody = Get(res.value).body,
                   !.ctxHeaders = IF cacheHeaders THEN Get(res.value).headers ELSE {}]
    ELSE [q EXCEPT !.cacheEntry = res, !.path = "miss", !.phase = "awaitNext"]

\* The awaited get settles: it had resolved during the call, or the Redis
\* client answers or rejects now.
GetSettle(r) ==
    LET q == req[r]
    IN  /\ q.phase = "awaitGet"
        /\ q.getPend \in {"resolved", "ok", "error"}
        /\ LET res == IF q.getPend = "resolved" THEN q.cacheEntry
                      ELSE RedisGetSettle(store, q.key, q.getPend, clock)
           IN  req' = [req EXCEPT ![r] =
                          AfterGet([q EXCEPT !.provOk = (q.provOk \/ q.getPend = "ok")], res)]
        /\ UNCHANGED <<ptype, config, initialized, store, started>>
        /\ UNCHANGED provVars

\* The deadline of withTimeout passes before the Redis client has settled.
GetTimeout(r) ==
    LET q == req[r]
    IN  /\ q.phase = "awaitGet"
        /\ q.getPend \in RedisReplies
        /\ req' = [req EXCEPT ![r] = AfterGet(q, RedisGetSettle(store, q.key, withTimeoutExpired, clock))]
        /\ UNCHANGED <<ptype, config, initialized, store, started>>
        /\ UNCHANGED provVars

\* cacheStore.set(key, val) is called: the memory provider writes during the
\* call, the Redis provider sends the command.
IssueSet(r, q, val) ==
    LET q1 == [q EXCEPT !.setCalls = 1, !.setVal = Some(val), !.phase = "awaitSet"]
    IN  IF ptype = "memory"
        THEN \E fault \in MemoryFaults :
                 LET s == MemorySet(initialized, store, StringKey(q.key), val,
                                    NumberOr(config.max, DefaultMax),
                                    NumberOr(config.ttl, DefaultTtl), fault, clock)
                 IN  /\ req' = [req EXCEPT ![r] = [q1 EXCEPT !.setPend = "resolved",
                                                            !.setRes = s.res,
                                                            !.provOk = (q.provOk \/ s.reached),
                                                            !.wrote = (q.wrote \/ Changes(store, s.store))]]
                     /\ store' = s.store
        ELSE IF ~Ready(initialized) \/ InvalidKey(StringKey(q.key))
        THEN /\ req' = [req EXCEPT ![r] = [q1 EXCEPT !.setPend = "resolved"]]
             /\ store' = store
        ELSE \E reply \in RedisReplies :
                 /\ req' = [req EXCEPT ![r] = [q1 EXCEPT !.setPend = reply]]
                 /\ store' = store

\* await next() ends with one of the outcomes outs: the pipeline threw, or it
\* set the response. The bypass paths return; the miss path goes on to store
\* a storable response.
PipelineReturns(r, outs) ==
    LET q == req[r]
    IN  /\ q.phase = "awaitNext"
        /\ \E out \in outs :
             LET q1 == [q EXCEPT !.nextCalls = 1, !.pipe = out,
                                 !.ctxStatus = out.status, !.ctxBody = out.body,
                                 !.ctxHeaders = ResponseHeaders(out.enc)]
             IN  IF out.threw
                 THEN /\ req' = [req EXCEPT ![r] = [q EXCEPT !.nextCalls = 1, !.pipe = out,
                                                            !.phase = "failed",
                                                            !.threw = "pipeline"]]
                      /\ store' = store
                 ELSE IF q.path # "miss" \/ ~Storable(q1) \/ AuthorizedBypass(q1)
                 THEN /\ req' = [req EXCEPT ![r] = [q1 EXCEPT !.phase = "done"]]
                      /\ store' = store
                 ELSE IF IsStream(q1.ctxBody)
                 THEN /\ req' = [req EXCEPT ![r] = [q1 EXCEPT !.phase = "capture"]]
                      /\ store' = store
                 ELSE IssueSet(r, q1, Entry(q1.ctxBody, out.enc))
        /\ UNCHANGED <<ptype, config, initialized, started>>
        /\ UNCHANGED provVars

NextReturns(r) == PipelineReturns(r, PipelineOutcomes(Sanitize(req[r].payload)))

\* A stream that has been read to its end, or has failed, has no chunk left.
Drained(body) == [body EXCEPT !.chunks = <<>>]

\* The streamed body is captured: drained, decompressed and decoded, and the
\* decoded text is given to cacheStore.set. A rejection of streamToBuffer or of
\* decompressBuffer leaves the middleware as an exception.
Capture(r) ==
    LET q == req[r]
        b == streamToBuffer(q.ctxBody)
        d == IF IsSome(b) THEN decompressBuffer(Get(b), q.pipe.enc) ELSE None
        q1 == [q EXCEPT !.ctxBody = Drained(q.ctxBody)]
    IN  /\ q.phase = "capture"
        /\ IF IsSome(d)
           THEN IssueSet(r, [q1 EXCEPT !.buf = Get(b)],
                         Entry(decodeBufferToText(Get(d)), q.pipe.enc))
           ELSE /\ req' = [req EXCEPT ![r] = [q1 EXCEPT !.phase = "failed",
                                                       !.threw = "capture"]]
                /\ store' = store
        /\ UNCHANGED <<ptype, config, initialized, started>>
        /\ UNCHANGED provVars

\* ctx.body = buf, after the set of a captured stream.
BodyLeftDrained(buf, body) == body

BodyAfterCapture(buf, body) == buf

\* The awaited set settles, and the middleware returns.
SetSettle(r) ==
    LET q == req[r]
    IN  /\ q.phase = "awaitSet"
        /\ q.setPend \in {"resolved", "ok", "error"}
        /\ LET s == IF q.setPend = "resolved"
                    THEN [res |-> q.setRes, store |-> store, reached |-> FALSE]
                    ELSE RedisSetSettle(store, q.key, Get(q.setVal), q.setPend,
                                        NumberOr(config.ttl, DefaultTtl), clock)
           IN  /\ store' = s.store
               /\ req' = [req EXCEPT ![r] =
                            IF s.res.outcome = "throw"
                            THEN [q EXCEPT !.phase = "failed", !.threw = "provider"]
                            ELSE [q EXCEPT !.phase = "done",
                                           !.setRes = s.res,
                                           !.provOk = (q.provOk \/ s.reached),
                                           !.wrote = (q.wrote \/ Changes(store, s.store)),
                                           !.ctxBody = IF q.buf.kind = "none" THEN q.ctxBody
                                                       ELSE BodyAfterCapture(q.buf, q.ctxBody)]]
        /\ UNCHANGED <<ptype, config, initialized, started>>
        /\ UNCHANGED provVars

\* The response of a finished request has been sent; its slot is free again.
Finish(r) ==
    /\ req[r].phase \in {"done", "failed"}
    /\ req' = [req EXCEPT ![r] = IdleReq]
    /\ UNCHANGED <<ptype, config, initialized, store, started>>
    /\ UNCHANGED provVars

(* --------------------------- provider calls ---------------------------- *)

\* The keys, values and patterns callers hand to the provider operations.
ProvKeys ==
    {StringKey(k) : k \in ProvStrings} \cup {StringKey(<<>>), NullKey, UndefinedKey, NumberKey}

ProvVals ==
    {Entry(ValueBody(11, <<>>), "identity"), Entry(ValueBody(12, <<>>), "identity"),
     Entry(BufferBody(<<1, 2>>, <<>>), "identity")}

\* The (key, value) pairs set is called with.
SetArgs ==
    {<<k, v>> : k \in {StringKey(x) : x \in ProvStrings}, v \in ProvVals}
        \cup {<<k, Entry(ValueBody(11, <<>>), "identity")>> : k \in ProvKeys}

ProvPatterns ==
    {<< [source |-> <<"cache:">>, global |-> FALSE] >>,
     << [source |-> <<"graphql:">>, global |-> FALSE],
        [source |-> <<"cache:", "a">>, global |-> FALSE] >>}

\* Patterns with and without the global flag.
ClearPatterns ==
    ProvPatterns
        \cup {<< [source |-> <<"cache:">>, global |-> TRUE] >>,
              << [source |-> <<"graphql:">>, global |-> TRUE],
                 [source |-> <<"cache:">>, global |-> TRUE] >>}

\* How a command of a whole provider call ends.
CallReplies == {"ok", "error"}

\* The instants at which calls are made.
Times == {0, 500, 1000, 1500, 2000}

\* The plugin configurations the providers are driven with.
ProvConfigs ==
    [max : {-1, 2}, ttl : {1000}, size : {1024}, allowStale : {FALSE},
     cacheAuthorizedRequests : {FALSE}]

InitProv ==
    /\ ptype \in {"memory", "redis"}
    /\ config \in ProvConfigs
    /\ initialized = FALSE
    /\ store = <<>>
    /\ req = [r \in Reqs |-> IdleReq]
    /\ started = 0
    /\ clock = 0
    /\ last = NoCall
    /\ hist = NoHist
    /\ fn = NoFn
    /\ pend = NoPend

\* The call is recorded in last, and what the call before it did in hist.
\* after is the store the call leaves.
Recorded(op, key, val, res, reached, built, listed, after) ==
    LET follows == op = "get" /\ last.op = "set" /\ last.reached /\ last.key = key
    IN  /\ last' = [op |-> op, key |-> key, val |-> val, res |-> res,
                    reached |-> reached, built |-> built, listed |-> listed,
                    over |-> /\ op = "set"
                             /\ reached
                             /\ \E e \in Content(store) :
                                    e.key = key.str /\ e.val # Get(val)
                                        /\ e.val # JsonStringify(Get(val)),
                    evicted |-> IF op = "set" /\ reached
                                THEN Keys(store) \ Keys(after)
                                ELSE {}]
        /\ hist' = [initThrew |-> (hist.initThrew \/ (op = "init" /\ res = ThrowResult)),
                    prior |-> IF follows THEN last.val ELSE None,
                    over |-> (follows /\ last.over),
                    used |-> IF ptype # "memory" THEN <<>>
                             ELSE LET touched == \/ op = "set" /\ reached
                                                 \/ op = "get" /\ res.outcome = "value"
                                      order == IF touched
                                               THEN SelectSeq(hist.used, LAMBDA k : k # key.str)
                                                        \o <<key.str>>
                                               ELSE hist.used
                                  IN  SelectSeq(order, LAMBDA k : k \in Keys(after)),
                    setAt |-> [k \in ProvStrings |->
                                 IF op = "set" /\ reached /\ key.str = k THEN clock
                                 ELSE IF k \in Keys(after) THEN hist.setAt[k]
                                 ELSE -1],
                    freshAt |-> [k \in ProvStrings |->
                                   IF k \notin Keys(after) THEN -1
                                   ELSE IF \/ op = "set" /\ reached /\ key.str = k
                                           \/ /\ ptype = "memory"
                                              /\ op = "get"
                                              /\ res.outcome = "value"
                                              /\ key.str = k
                                   THEN clock
                                   ELSE hist.freshAt[k]]]

\* init without the check of this.initialized.
InitCallAgain(isInitialized, st, clientOk) ==
    IF InitSucceeds(clientOk)
    THEN [initialized |-> TRUE, store |-> IF ptype = "memory" THEN <<>> ELSE st,
          built |-> TRUE, res |-> NullResult]
    ELSE [initialized |-> FALSE, store |-> st, built |-> FALSE, res |-> ThrowResult]

\* InMemoryCacheProvider.init / RedisCacheProvider.init, called in any state:
\* it returns at once when the provider is initialized; otherwise it throws,
\* or constructs the LRU cache (empty) or the Redis client and sets the flag.
InitCall(isInitialized, st, clientOk) ==
    IF isInitialized
    THEN [initialized |-> TRUE, store |-> st, built |-> FALSE, res |-> NullResult]
    ELSE IF InitSucceeds(clientOk)
    THEN [initialized |-> TRUE, store |-> IF ptype = "memory" THEN <<>> ELSE st,
          built |-> TRUE, res |-> NullResult]
    ELSE [initialized |-> FALSE, store |-> st, built |-> FALSE, res |-> ThrowResult]

CallInit ==
    /\ \E clientOk \in BOOLEAN :
         LET i == InitCall(initialized, store, clientOk)
         IN  /\ initialized' = i.initialized
             /\ store' = i.store
             /\ Recorded("init", NullKey, None, i.res, FALSE, i.built, {}, i.store)
    /\ UNCHANGED <<ptype, config, req, started, clock, fn, pend>>

CallGet(key) ==
    /\ \E reply \in CallReplies \cup {withTimeoutExpired} :
         LET g == IF ptype = "memory"
                  THEN MemoryGet(initialized, store, key, IF reply = "ok" THEN "ok" ELSE "error",
                                 clock, config.allowStale)
                  ELSE RedisGet(initialized, store, key, reply, clock)
         IN  /\ store' = g.store
             /\ Recorded("get", key, None, g.res, g.reached, FALSE, {}, g.store)
    /\ UNCHANGED <<ptype, config, initialized, req, started, clock, fn, pend>>

CallSet(key, val) ==
    /\ \E reply \in CallReplies :
         LET r == IF ptype = "memory"
                  THEN MemorySet(initialized, store, key, val, NumberOr(config.max, DefaultMax),
                                 NumberOr(config.ttl, DefaultTtl), reply, clock)
                  ELSE RedisSet(initialized, store, key, val, reply,
                                NumberOr(config.ttl, DefaultTtl), clock)
         IN  /\ store' = r.store
             /\ Recorded("set", key, Some(val), r.res, r.reached, FALSE, {}, r.store)
             /\ pend' = IF pend.phase # "none" /\ r.reached
                        THEN [pend EXCEPT !.wrote = @ \cup {[key |-> key.str, val |-> val]}]
                        ELSE pend
    /\ UNCHANGED <<ptype, config, initialized, req, started, clock, fn>>

CallDel(key) ==
    /\ \E reply \in CallReplies :
         LET r == IF ptype = "memory"
                  THEN MemoryDel(initialized, store, key, reply)
                  ELSE RedisDel(initialized, store, key, reply, clock)
         IN  /\ store' = r.store
             /\ Recorded("del", key, None, r.res, r.reached, FALSE, {}, r.store)
    /\ UNCHANGED <<ptype, config, initialized, req, started, clock, fn, pend>>

CallKeys ==
    /\ \E reply \in CallReplies :
         LET r == IF ptype = "memory"
                  THEN MemoryKeys(initialized, store, reply, clock, config.allowStale)
                  ELSE RedisKeys(initialized, store, reply, clock)
         IN  Recorded("keys", NullKey, None, r.res, r.reached, FALSE, r.listed, store)
    /\ UNCHANGED <<ptype, config, initialized, store, req, started, clock, fn, pend>>

CallReset ==
    /\ \E reply \in CallReplies :
         LET r == IF ptype = "memory"
                  THEN MemoryReset(initialized, store, reply, clock, config.allowStale)
                  ELSE RedisReset(initialized, store, reply)
         IN  /\ store' = r.store
             /\ Recorded("reset", NullKey, None, r.res, r.reached, FALSE, {}, r.store)
    /\ UNCHANGED <<ptype, config, initialized, req, started, clock, fn, pend>>

\* The orders in which the Redis server can list the keys; the order matters
\* to expressions with the global flag only.
ListOrders(regExps) ==
    IF ptype = "redis" /\ \E i \in 1..Len(regExps) : regExps[i].global
    THEN Orders(Keys(Live(store, clock)))
    ELSE {KeyList(Live(store, clock))}

CallClearByRegexp(regExps) ==
    /\ \E reply \in CallReplies, delReply \in CallReplies,
          order \in ListOrders(regExps) :
         LET r == IF ptype = "memory"
                  THEN MemoryClearByRegexp(initialized, store, regExps, reply, clock,
                                           config.allowStale)
                  ELSE RedisClearByRegexp(initialized, store, regExps, reply, delReply,
                                          order, clock)
         IN  /\ store' = r.store
             /\ Recorded("clearByRegexp", NullKey, None, r.res, r.reached, FALSE, {}, r.store)
    /\ UNCHANGED <<ptype, config, initialized, req, started, clock, fn, pend>>

\* InMemoryCacheProvider.reset, step by step. It lists the keys and awaits
\* the list; a provider that is not ready, or a listing that fails, ends the
\* call with null.
ResetCall ==
    /\ ptype = "memory"
    /\ pend.phase = "none"
    /\ \E fault \in MemoryFaults :
         LET ks == MemoryKeys(initialized, store, fault, clock, config.allowStale)
         IN  IF ~Ready(initialized) \/ ks.res = NullResult
             THEN /\ Recorded("reset", NullKey, None, NullResult, FALSE, FALSE, {}, store)
                  /\ pend' = pend
             ELSE /\ pend' = [phase |-> "listed", listed |-> ks.listed, wrote |-> {}]
                  /\ UNCHANGED <<last, hist>>
    /\ UNCHANGED <<ptype, config, initialized, store, req, started, clock, fn>>

\* reset that resumes with the list and deletes nothing.
ResetSkipsDels ==
    /\ pend.phase = "listed"
    /\ store' = store
    /\ pend' = [pend EXCEPT !.phase = "deleted"]
    /\ UNCHANGED <<ptype, config, initialized, req, started, clock, last, hist, fn>>

\* reset resumes with the list: del is called for every key listed, each
\* call deleting its key before it returns its promise, and reset awaits the
\* promises.
ResetDels ==
    /\ pend.phase = "listed"
    /\ store' = WithoutAll(store, pend.listed)
    /\ pend' = [pend EXCEPT !.phase = "deleted"]
    /\ UNCHANGED <<ptype, config, initialized, req, started, clock, last, hist, fn>>

\* reset resumes after the deletions and returns true.
ResetReturn ==
    /\ pend.phase = "deleted"
    /\ Recorded("reset", NullKey, None, TrueResult, TRUE, FALSE, pend.listed, store)
    /\ pend' = NoPend
    /\ UNCHANGED <<ptype, config, initialized, store, req, started, clock, fn>>

\* Time passes between two calls.
Tick ==
    /\ \E t \in Times : t > clock /\ clock' = t
    /\ UNCHANGED <<ptype, config, initialized, store, req, started, last, hist, fn, pend>>

(* --------------------------- specifications ---------------------------- *)

Next ==
    \/ ProviderInit
    \/ \E r \in Reqs : Start(r)
    \/ \E r \in Reqs : GetSettle(r)
    \/ \E r \in Reqs : GetTimeout(r)
    \/ \E r \in Reqs : NextReturns(r)
    \/ \E r \in Reqs : Capture(r)
    \/ \E r \in Reqs : SetSettle(r)
    \/ \E r \in Reqs : Finish(r)

Spec == Init /\ [][Next]_vars

\* Requests that arrive while others are in flight, and what the pipeline
\* answers them.
ConcurrentInputs ==
    {in \in Inputs :
        /\ in.payload # PayloadIntrospection
        /\ in.cacheControl = None
        /\ in.authorization = None
        /\ in.method = "POST"
        /\ in.url = <<"/graphql">>}

ConcurrentOutcomes(o) ==
    {out \in PipelineOutcomes(o) :
        \/ out.threw
        \/ out.body.kind = "value" /\ out.status = 200
        \/ out.body.kind = "stream" /\ out.enc = "identity" /\ ~out.body.broken}

StartConcurrent(r) == \E in \in ConcurrentInputs : Accept(r, in)

NextReturnsConcurrent(r) ==
    PipelineReturns(r, ConcurrentOutcomes(Sanitize(req[r].payload)))

NextConc ==
    \/ ProviderInit
    \/ \E r \in Reqs : StartConcurrent(r)
    \/ \E r \in Reqs : GetSettle(r)
    \/ \E r \in Reqs : GetTimeout(r)
    \/ \E r \in Reqs : NextReturnsConcurrent(r)
    \/ \E r \in Reqs : Capture(r)
    \/ \E r \in Reqs : SetSettle(r)
    \/ \E r \in Reqs : Finish(r)

\* No concurrent request carries an authorization header, so the setting of
\* cacheAuthorizedRequests is fixed.
InitConc == Init /\ ~config.cacheAuthorizedRequests

SpecConc == InitConc /\ [][NextConc]_vars

\* The requests and pipeline answers of the liveness checks.
LiveInputs == {in \in ConcurrentInputs : in.payload = PayloadQuery}

LiveOutcomes(o) ==
    {out \in ConcurrentOutcomes(o) : ~out.threw /\ (out.body.kind = "value" => out.body.data = <<11>>)}

StartLive(r) == \E in \in LiveInputs : Accept(r, in)

NextReturnsLive(r) == PipelineReturns(r, LiveOutcomes(Sanitize(req[r].payload)))

NextLive ==
    \/ ProviderInit
    \/ \E r \in Reqs : StartLive(r)
    \/ \E r \in Reqs : GetSettle(r)
    \/ \E r \in Reqs : GetTimeout(r)
    \/ \E r \in Reqs : NextReturnsLive(r)
    \/ \E r \in Reqs : Capture(r)
    \/ \E r \in Reqs : SetSettle(r)
    \/ \E r \in Reqs : Finish(r)

\* The event loop runs every continuation that is ready: a settled promise
\* resumes its awaiter, a timer that is due fires, and the downstream pipeline
\* returns.
Fairness ==
    \A r \in Reqs :
        /\ WF_vars(GetSettle(r))
        /\ WF_vars(GetTimeout(r))
        /\ WF_vars(NextReturnsLive(r))
        /\ WF_vars(Capture(r))
        /\ WF_vars(SetSettle(r))

FairSpec == InitConc /\ [][NextLive]_vars /\ Fairness

\* Requests whose pipeline answers with one of two successful statuses, each
\* with a body of its own.
StatusOutcomes(o) ==
    {[threw |-> FALSE, status |-> 200, enc |-> "identity", body |-> ValueBody(11, o)],
     [threw |-> FALSE, status |-> 201, enc |-> "identity", body |-> ValueBody(14, o)]}

NextReturnsStatus(r) == PipelineReturns(r, StatusOutcomes(Sanitize(req[r].payload)))

NextStatus ==
    \/ ProviderInit
    \/ \E r \in Reqs : StartLive(r)
    \/ \E r \in Reqs : GetSettle(r)
    \/ \E r \in Reqs : GetTimeout(r)
    \/ \E r \in Reqs : NextReturnsStatus(r)
    \/ \E r \in Reqs : SetSettle(r)
    \/ \E r \in Reqs : Finish(r)

SpecStatus == InitConc /\ [][NextStatus]_vars

\* Requests that carry a mutation.
PayloadMutation == <<"{", "mutation", "{", "createArticle", "}", "}">>

MutationInputs ==
    {in \in Inputs :
        /\ in.payload = PayloadQuery
        /\ in.method = "POST"
        /\ in.url = <<"/graphql">>}

StartMutation(r) ==
    \E in \in MutationInputs : Accept(r, [in EXCEPT !.payload = PayloadMutation])

NextMutation ==
    \/ ProviderInit
    \/ \E r \in Reqs : StartMutation(r)
    \/ \E r \in Reqs : GetSettle(r)
    \/ \E r \in Reqs : GetTimeout(r)
    \/ \E r \in Reqs : NextReturnsLive(r)
    \/ \E r \in Reqs : Capture(r)
    \/ \E r \in Reqs : SetSettle(r)
    \/ \E r \in Reqs : Finish(r)

SpecMutation == Init /\ [][NextMutation]_vars

\* The provider driven directly by its callers, one call at a time.
NextProv ==
    \/ CallInit
    \/ \E key \in ProvKeys : CallGet(key)
    \/ \E a \in SetArgs : CallSet(a[1], a[2])
    \/ \E key \in ProvKeys : CallDel(key)
    \/ CallKeys
    \/ CallReset
    \/ \E regExps \in ProvPatterns : CallClearByRegexp(regExps)

SpecProv == InitProv /\ [][NextProv]_vars

\* The provider driven with calls of set and get of one key while time
\* passes, under configurations that differ in ttl and allowStale.
TtlConfigs ==
    [max : {2}, ttl : {500, 1800}, size : {1024}, allowStale : BOOLEAN,
     cacheAuthorizedRequests : {FALSE}]

TtlKey == StringKey(<<"cache:", "a">>)

InitTtl ==
    /\ ptype \in {"memory", "redis"}
    /\ config \in TtlConfigs
    /\ initialized = FALSE
    /\ store = <<>>
    /\ req = [r \in Reqs |-> IdleReq]
    /\ started = 0
    /\ clock = 0
    /\ last = NoCall
    /\ hist = NoHist
    /\ fn = NoFn
    /\ pend = NoPend

NextTtl ==
    \/ CallInit
    \/ CallGet(TtlKey)
    \/ \E val \in ProvVals : CallSet(TtlKey, val)
    \/ Tick

SpecTtl == InitTtl /\ [][NextTtl]_vars

\* The providers driven with calls of set and of clearByRegexp.
ClearArgs == {<<StringKey(k), Entry(ValueBody(11, <<>>), "identity")>> : k \in ProvStrings}

InitClear == InitProv /\ config.max = 2

NextClear ==
    \/ CallInit
    \/ \E a \in ClearArgs : CallSet(a[1], a[2])
    \/ \E regExps \in ClearPatterns : CallClearByRegexp(regExps)

SpecClear == InitClear /\ [][NextClear]_vars

\* The Redis provider on a database another client writes to as well.
ForeignKey == <<"session:", "x">>

\* Another client of the Redis server writes a key of its own.
ForeignSet ==
    /\ ptype = "redis"
    /\ ForeignKey \notin Keys(store)
    /\ store' = Live(store, clock)
                    \o <<[key |-> ForeignKey,
                          val |-> JsonStringify(Entry(ValueBody(12, <<>>), "identity")),
                          at |-> clock, ttl |-> 0]>>
    /\ UNCHANGED <<ptype, config, initialized, req, started, clock, last, hist, fn, pend>>

\* Patterns for the provider's keys, and one that matches every key.
SharedPatterns == ProvPatterns \cup {<< [source |-> <<>>, global |-> FALSE] >>}

InitShared == InitProv /\ ptype = "redis" /\ config.max = 2

NextShared ==
    \/ CallInit
    \/ \E a \in ClearArgs : CallSet(a[1], a[2])
    \/ \E key \in ProvKeys : CallDel(key)
    \/ CallKeys
    \/ CallReset
    \/ \E regExps \in SharedPatterns : CallClearByRegexp(regExps)
    \/ ForeignSet

SpecShared == InitShared /\ [][NextShared]_vars

\* The memory provider driven with calls of set, get and keys while a call of
\* reset is in flight.
ResetKeys == {StringKey(<<"cache:", "a">>), StringKey(<<"cache:", "b">>)}

ResetVals == {Entry(ValueBody(11, <<>>), "identity"), Entry(ValueBody(12, <<>>), "identity")}

InitReset == InitProv /\ ptype = "memory" /\ config.max = 2

NextReset ==
    \/ CallInit
    \/ \E key \in ResetKeys : CallGet(key)
    \/ \E key \in ResetKeys, val \in ResetVals : CallSet(key, val)
    \/ CallKeys
    \/ ResetCall
    \/ ResetDels
    \/ ResetReturn

SpecReset == InitReset /\ [][NextReset]_vars

\* The Redis provider driven under configurations whose ttl is zero, below
\* one second, one second, or more.
ExpiryConfigs ==
    [max : {2}, ttl : {0, 500, 1000, 1800}, size : {1024}, allowStale : {FALSE},
     cacheAuthorizedRequests : {FALSE}]

InitExpiry ==
    /\ ptype = "redis"
    /\ config \in ExpiryConfigs
    /\ initialized = FALSE
    /\ store = <<>>
    /\ req = [r \in Reqs |-> IdleReq]
    /\ started = 0
    /\ clock = 0
    /\ last = NoCall
    /\ hist = NoHist
    /\ fn = NoFn
    /\ pend = NoPend

SpecExpiry == InitExpiry /\ [][NextTtl]_vars

\* The memory provider driven under configurations whose max, ttl and size
\* are in range, zero or negative.
BoundConfigs ==
    [max : {-1, 0, 2}, ttl : {-1000, 0, 1000}, size : {-1, 0, 1024}, allowStale : {FALSE},
     cacheAuthorizedRequests : {FALSE}]

InitBounds ==
    /\ ptype = "memory"
    /\ config \in BoundConfigs
    /\ initialized = FALSE
    /\ store = <<>>
    /\ req = [r \in Reqs |-> IdleReq]
    /\ started = 0
    /\ clock = 0
    /\ last = NoCall
    /\ hist = NoHist
    /\ fn = NoFn
    /\ pend = NoPend

SpecBounds == InitBounds /\ [][NextTtl]_vars

\* The REST requests the key function is applied to.
Queries ==
    {<<>>,
     << [name |-> <<"a">>, value |-> Some(<<"1">>)] >>,
     << [name |-> <<"a">>, value |-> Some(<<"2">>)] >>,
     << [name |-> <<"a">>, value |-> Some(<<"1">>)], [name |-> <<"b">>, value |-> Some(<<"2">>)] >>,
     << [name |-> <<"b">>, value |-> Some(<<"2">>)], [name |-> <<"a">>, value |-> Some(<<"1">>)] >>}

HeaderSets ==
    [acceptLanguage : {None, Some(<<"en">>)}, accept : {None, Some(<<"application/json">>)},
     userAgent : {None, Some(<<"Mozilla">>)}, authorization : {None, Some(<<"Bearer", "t">>)},
     requestId : {None, Some(<<"7">>)}]

Contexts ==
    [method : {"GET", "POST"}, url : {<<"/api/articles">>, <<"/api/articles", ":">>},
     query : Queries, headers : HeaderSets]

\* The first request of a pair: its tracked headers are all absent or all
\* present.
BaseContexts ==
    {c \in Contexts :
        /\ c.method = "GET"
        /\ (c.headers.acceptLanguage = None) = (c.headers.accept = None)
        /\ (c.headers.accept = None) = (c.headers.userAgent = None)
        /\ (c.headers.authorization = None) = (c.headers.requestId = None)}

\* The pieces of the GraphQL payloads: what precedes the password field, the
\* white space after its colon, two password values (as they stand in the
\* JSON text, a quote in a password being written \"), and what follows.
PasswordValues ==
    {<<>>, <<"a">>, <<"b", "b">>, <<"a", "\\", QUOTE, "b">>, <<"a", "\\", QUOTE, "c">>}

PasswordParts ==
    [prefix : {<<"{">>, <<"{", QUOTE, "identifier", QUOTE, ":", QUOTE, "u", QUOTE, ",">>},
     gap : {<<>>, <<SPACE>>, <<SPACE, SPACE>>},
     va : PasswordValues,
     vb : PasswordValues,
     suffix : {<<"}">>, <<",", QUOTE, "password", QUOTE, ":", QUOTE, "z", QUOTE, "}">>}]

\* The payload with the password field holding value.
WithPassword(parts, value) ==
    parts.prefix \o <<QUOTE, "password", QUOTE, ":">> \o parts.gap \o JsonString(value)
        \o parts.suffix

\* The payload with the password field replaced by the placeholder.
WithPlaceholder(parts) == parts.prefix \o Placeholder \o parts.suffix

InitKey ==
    /\ ptype = "memory"
    /\ config \in {c \in Configs : c.max = 1 /\ ~c.cacheAuthorizedRequests}
    /\ initialized = FALSE
    /\ store = <<>>
    /\ req = [r \in Reqs |-> IdleReq]
    /\ started = 0
    /\ clock = 0
    /\ last = NoCall
    /\ hist = NoHist
    /\ pend = NoPend
    /\ fn \in {[NoFn EXCEPT !.a = a, !.b = b] : a \in BaseContexts, b \in Contexts}
                \cup {[NoFn EXCEPT !.parts = q] : q \in PasswordParts}

\* generateCacheKey is applied to the two requests.
ApplyRest ==
    /\ fn.op = "none"
    /\ fn.parts = NoParts
    /\ fn' = [fn EXCEPT !.op = "rest",
                        !.ma = KeyData(fn.a), !.mb = KeyData(fn.b),
                        !.ka = generateCacheKey(fn.a), !.kb = generateCacheKey(fn.b)]
    /\ UNCHANGED <<ptype, config, initialized, store, req, started, clock, last, hist, pend>>

\* generateGraphqlCacheKey is applied to the two payloads and to the payload
\* with the placeholder.
ApplyGraphql ==
    /\ fn.op = "none"
    /\ fn.parts # NoParts
    /\ fn' = [fn EXCEPT !.op = "graphql",
                        !.ka = generateGraphqlCacheKey(WithPassword(fn.parts, fn.parts.va)),
                        !.kb = generateGraphqlCacheKey(WithPassword(fn.parts, fn.parts.vb)),
                        !.kp = generateGraphqlCacheKey(WithPlaceholder(fn.parts))]
    /\ UNCHANGED <<ptype, config, initialized, store, req, started, clock, last, hist, pend>>

NextKey == ApplyRest \/ ApplyGraphql

SpecKey == InitKey /\ [][NextKey]_vars

(* ------------------------------ claims --------------------------------- *)

InFlight(q) == q.phase \notin {"idle", "done", "failed"}

Finished(q) == q.phase \in {"done", "failed"}

\* The request is bypassed: no-cache directive, or authorization header while
\* cacheAuthorizedRequests is false.
Bypassed(q) == q.phase # "idle" /\ (NoCache(q) \/ AuthorizedBypass(q))

\* The capture of the streamed body of q.pipe fails: streamToBuffer or
\* decompressBuffer rejects.
CaptureFails(q) ==
    /\ IsStream(q.pipe.body)
    /\ LET b == streamToBuffer(q.pipe.body)
       IN  ~IsSome(b) \/ ~IsSome(decompressBuffer(Get(b), q.pipe.enc))

\* The client receives the response the pipeline produced: the middleware
\* returned, with the pipeline's status and the bytes of the pipeline's body.
PipelineResponseDelivered(q) ==
    /\ q.phase = "done"
    /\ q.nextCalls = 1
    /\ q.ctxStatus = q.pipe.status
    /\ Bytes(q.ctxBody) = Bytes(q.pipe.body)

\* C1 (as claimed): a bypassed request that is passed to the downstream
\* pipeline has had no provider get issued for it.
C1_NoGetBeforeBypass ==
    \A r \in Reqs :
        (Bypassed(req[r]) /\ req[r].phase = "awaitNext") => req[r].getCalls = 0

\* C2 (as claimed): for a bypassed request no provider set is issued, and
\* no operation done for it changes the content of the store.
C2_NoSetOnBypass ==
    \A r \in Reqs :
        Bypassed(req[r]) => (req[r].setCalls = 0 /\ ~req[r].wrote)

\* C3 (as claimed): a bypassed request is never answered from the cache:
\* when it has finished, the pipeline has been invoked for it and, unless the
\* pipeline itself threw, the client receives the pipeline's response.
C3_BypassServedByPipeline ==
    \A r \in Reqs :
        (Bypassed(req[r]) /\ Finished(req[r])) =>
            /\ req[r].path # "hit"
            /\ req[r].nextCalls = 1
            /\ ~req[r].pipe.threw => PipelineResponseDelivered(req[r])

\* The part of C3 the code keeps: a bypassed request never takes the hit
\* path, and the pipeline is invoked for it.
C3_BypassNeverHits ==
    \A r \in Reqs :
        (Bypassed(req[r]) /\ Finished(req[r])) =>
            (req[r].path # "hit" /\ req[r].nextCalls = 1)

\* C4: on a cache hit (get returned an entry, the request is not bypassed)
\* the middleware ends the request with the entry, and neither invokes the
\* downstream pipeline nor issues a provider set.
C4_HitEndsRequest ==
    \A r \in Reqs :
        LET q == req[r]
        IN  (/\ q.phase \notin {"idle", "awaitGet"}
             /\ q.path # "introspection"
             /\ q.cacheEntry.outcome = "value"
             /\ ~Bypassed(q))
            => (/\ q.phase = "done"
                /\ q.path = "hit"
                /\ q.nextCalls = 0
                /\ q.setCalls = 0
                /\ q.pipe = NoOutcome
                /\ q.ctxBody = Get(q.cacheEntry.value).body)

C4_Witness ==
    \E r \in Reqs :
        /\ req[r].path = "hit"
        /\ req[r].phase = "done"
        /\ req[r].getCalls = 1
        /\ req[r].ctxBody.kind = "text"

\* C5: no false hits: the body a request is answered with from the cache was
\* produced by the pipeline for a request with the same redacted payload, and
\* every stored entry lies under the key of the redacted payload it was
\* produced for.
C5_NoFalseHits ==
    /\ \A r \in Reqs :
          req[r].path = "hit" => req[r].ctxBody.origin = Sanitize(req[r].payload)
    /\ \A i \in 1..Len(store) :
          store[i].key = <<"graphql:">> \o Sha256(store[i].val.body.origin)

\* A request is answered from the cache with the entry of a request that is
\* still in flight and whose payload differs from its own in the password.
C5_Witness ==
    \E r, o \in Reqs :
        /\ req[r].path = "hit"
        /\ req[r].payload = PayloadLoginB
        /\ InFlight(req[o])
        /\ req[o].payload = PayloadLoginA
        /\ req[o].setCalls = 1

\* C6 (as claimed): when the provider is not ready or every provider
\* operation of the request fails, the request still runs the pipeline, no
\* provider failure ends it, and the client receives the pipeline's response.
C6_PassThroughOnOutage ==
    \A r \in Reqs :
        (Finished(req[r]) /\ ~req[r].provOk) =>
            /\ req[r].nextCalls = 1
            /\ req[r].threw # "provider"
            /\ ~req[r].pipe.threw => PipelineResponseDelivered(req[r])

\* The part of C6 the code keeps: under an outage the pipeline runs and no
\* provider failure ends the request.
C6_OutageNeverThrows ==
    \A r \in Reqs :
        (Finished(req[r]) /\ ~req[r].provOk) =>
            (req[r].nextCalls = 1 /\ req[r].threw # "provider")

\* C7 (as claimed): every request the middleware handles eventually completes,
\* even when the backing store never answers a command.
C7_EveryRequestCompletes ==
    \A r \in Reqs : InFlight(req[r]) ~> Finished(req[r])

\* The part of C7 the code keeps: a request completes unless it waits for a
\* set that the backing store never answers.
C7_CompletesUnlessSetHangs ==
    \A r \in Reqs :
        InFlight(req[r]) ~>
            (Finished(req[r]) \/ (req[r].phase = "awaitSet" /\ req[r].setPend = "never"))

\* C8: a get on a ready provider whose backing read never resolves is ended
\* by the deadline: the request leaves the lookup with the miss value (null),
\* without an exception, and goes on to the downstream pipeline.
C8_HungGetResolvesAsMiss ==
    \A r \in Reqs :
        (req[r].phase = "awaitGet" /\ req[r].getPend = "never")
            ~> (/\ req[r].phase = "awaitNext"
                /\ req[r].getPend = "never"
                /\ req[r].cacheEntry = NullResult
                /\ req[r].path = "miss"
                /\ req[r].threw = "none")

C8_Witness ==
    \E r \in Reqs :
        /\ initialized
        /\ req[r].getPend = "never"
        /\ req[r].path = "miss"
        /\ req[r].cacheEntry = NullResult
        /\ req[r].nextCalls = 1

\* C9: on the miss path with a streamed body, once the stream is drained and
\* the set has settled, the body the client gets is a buffer holding exactly
\* the bytes of the original stream, in order.
C9_StreamBodyPreserved ==
    \A r \in Reqs :
        LET q == req[r]
        IN  (/\ q.phase = "done"
             /\ q.path = "miss"
             /\ IsStream(q.pipe.body)
             /\ q.setCalls = 1)
            => (/\ q.ctxBody.kind = "buffer"
                /\ Bytes(q.ctxBody) = Flatten(q.pipe.body.chunks))

C9_Witness ==
    \E r \in Reqs :
        LET q == req[r]
        IN  /\ q.phase = "done"
            /\ q.path = "miss"
            /\ IsStream(q.pipe.body)
            /\ q.pipe.enc = "gzip"
            /\ Len(q.pipe.body.chunks) > 1
            /\ q.setCalls = 1
            /\ IsSome(Lookup(store, q.key))
            /\ Bytes(q.ctxBody) # <<>>

\* C10 (as claimed): a failure while the streamed body is captured does not
\* fail the request: the client receives the pipeline's response, and only
\* the cache write is skipped.
C10_CaptureFailureCaught ==
    \A r \in Reqs :
        (/\ Finished(req[r])
         /\ req[r].path = "miss"
         /\ Storable(req[r])
         /\ CaptureFails(req[r]))
        => (/\ req[r].threw = "none"
            /\ PipelineResponseDelivered(req[r])
            /\ req[r].setCalls = 0)

\* The last call was a data operation of the provider.
DataOps == {"get", "set", "del", "keys", "reset", "clearByRegexp"}

\* C11: for both providers, a data operation called before init, or after an
\* init that threw, returns the null (no-op) result, does not throw, and
\* does not reach the backing store, which is left as it was.
C11_NotReadyIsNoOp ==
    [][(~initialized' /\ last'.op \in DataOps)
          => (/\ last'.res = NullResult
              /\ ~last'.reached
              /\ last'.listed = {}
              /\ store' = store)]_vars

C11_Witness ==
    /\ ~initialized
    /\ hist.initThrew
    /\ last.op = "set"
    /\ ~InvalidKey(last.key)
    /\ last.res = NullResult

C14_RoundTrip ==
    (last.op = "get" /\ last.reached /\ IsSome(hist.prior))
        => last.res = ValueResult(Get(hist.prior))

\* The part of C14 the code keeps: the memory provider returns the value
\* set, and the Redis provider returns it when its body is not a Buffer, in
\* both cases also after an overwrite.
C14_RoundTripOfPlainValues ==
    (/\ last.op = "get"
     /\ last.reached
     /\ IsSome(hist.prior)
     /\ (ptype = "memory" \/ Get(hist.prior).body.kind # "buffer"))
        => last.res = ValueResult(Get(hist.prior))

C14_OverwriteReached ==
    /\ last.op = "get"
    /\ last.reached
    /\ IsSome(hist.prior)
    /\ hist.over
    /\ ptype = "redis"
    /\ last.res = ValueResult(Get(hist.prior))

\* C15: the memory provider never holds more than max keys, and a set that
\* evicts a key evicts the one whose last set or answered get is the oldest.
C15_LruBound ==
    [][(ptype = "memory" /\ initialized)
          => (/\ Len(store') <= NumberOr(config.max, DefaultMax)
              /\ Cardinality(Keys(store')) = Len(store')
              /\ last'.op = "set" =>
                    \A e \in Keys(store) \ Keys(store') :
                        hist.used # <<>> /\ e = Head(hist.used))]_vars

\* A set of a third key on a full store has evicted one of the two keys
\* stored.
C15_Witness ==
    /\ ptype = "memory"
    /\ last.op = "set"
    /\ last.key = StringKey(<<"graphql:", "c">>)
    /\ last.evicted = {<<"cache:", "b">>}
    /\ Len(store) = NumberOr(config.max, DefaultMax)
    /\ store[1].key = <<"cache:", "a">>

\* The configured time to live, in ms.
ConfiguredTtl == NumberOr(config.ttl, DefaultTtl)

\* The last call's key, when it is one of the string keys.
CalledKey(call) == call.key.str

\* C16 (as claimed): for either provider and every configured ttl t > 0, a
\* get answered by the store returns the entry a set inserted when less than
\* t has passed since the set, and null when more than t has passed since
\* the set.
C16_TtlExpiry ==
    [][(/\ clock' = clock
        /\ last'.op = "get"
        /\ last'.reached
        /\ ~InvalidKey(last'.key)
        /\ hist.setAt[CalledKey(last')] >= 0
        /\ ConfiguredTtl > 0)
          => (/\ clock - hist.setAt[CalledKey(last')] < ConfiguredTtl
                    => last'.res.outcome = "value"
              /\ clock - hist.setAt[CalledKey(last')] > ConfiguredTtl
                    => last'.res = NullResult)]_vars

\* The time to live the store applies: the configured one in the LRU cache,
\* whole seconds in Redis, where 0 stands for no expiry.
EffectiveTtl ==
    IF ptype = "memory" THEN ConfiguredTtl ELSE (ConfiguredTtl \div 1000) * 1000

\* C16 (amended): a get answered by the store returns the entry while less
\* than the effective time to live has passed since the key was last set or,
\* in the memory provider, last returned by get, and whenever the effective
\* time to live is 0; once more than that has passed it returns null, except
\* that the memory provider with allowStale returns the expired entry once.
\* A key that is not stored gives null.
C16_TtlExpiryAmended ==
    [][(/\ clock' = clock
        /\ last'.op = "get"
        /\ last'.reached
        /\ ~InvalidKey(last'.key)
        /\ ConfiguredTtl > 0)
          => LET since == hist.freshAt[CalledKey(last')]
                 fresh == EffectiveTtl = 0 \/ clock - since < EffectiveTtl
                 expired == EffectiveTtl > 0 /\ clock - since > EffectiveTtl
             IN  IF since < 0 THEN last'.res = NullResult
                 ELSE IF fresh THEN last'.res.outcome = "value"
                 ELSE IF ~expired THEN TRUE
                 ELSE IF ptype = "memory" /\ config.allowStale
                 THEN last'.res.outcome = "value" /\ CalledKey(last') \notin Keys(store')
                 ELSE last'.res = NullResult]_vars

\* The Redis provider, configured with ttl 1800, answers null 1500 ms after
\* the set.
C16_Witness ==
    /\ ptype = "redis"
    /\ config.ttl = 1800
    /\ last.op = "get"
    /\ last.reached
    /\ last.res = NullResult
    /\ hist.setAt[CalledKey(last)] >= 0
    /\ clock - hist.setAt[CalledKey(last)] = 1500

\* The memory provider returns an entry more than ttl after its set, a get
\* having refreshed it in between.
C16_SlidingWitness ==
    /\ ptype = "memory"
    /\ ~config.allowStale
    /\ last.op = "get"
    /\ last.res.outcome = "value"
    /\ clock - hist.setAt[CalledKey(last)] > ConfiguredTtl
    /\ hist.freshAt[CalledKey(last)] = clock

\* The query of a request as a mapping: its set of (name, value) pairs.
QueryMapping(ctx) == {ctx.query[i] : i \in 1..Len(ctx.query)}

\* The headers generateCacheKey is meant to track.
TrackedHeaders(ctx) == <<ctx.headers.acceptLanguage, ctx.headers.accept, ctx.headers.userAgent>>

\* C17 (as claimed): two requests with equal method, url, query mapping and
\* tracked headers have the same key, whatever the insertion order of the
\* query parameters.
C17_SameRequestSameKey ==
    (/\ fn.op = "rest"
     /\ fn.a.method = fn.b.method
     /\ fn.a.url = fn.b.url
     /\ QueryMapping(fn.a) = QueryMapping(fn.b)
     /\ TrackedHeaders(fn.a) = TrackedHeaders(fn.b))
        => fn.ka = fn.kb

\* C18: two requests that differ in method, in url, in the value of a query
\* parameter or in the value of accept-language, accept or user-agent have
\* different key material, hence different keys.
C18_DifferentRequestDifferentKey ==
    (/\ fn.op = "rest"
     /\ \/ fn.a.method # fn.b.method
        \/ fn.a.url # fn.b.url
        \/ QueryMapping(fn.a) # QueryMapping(fn.b)
        \/ TrackedHeaders(fn.a) # TrackedHeaders(fn.b))
        => (fn.ma # fn.mb /\ fn.ka # fn.kb)

\* Two requests that differ in the value of one query parameter only.
C18_Witness ==
    /\ fn.op = "rest"
    /\ fn.a.method = fn.b.method
    /\ fn.a.url = fn.b.url
    /\ fn.a.headers = fn.b.headers
    /\ Len(fn.a.query) = 1
    /\ Len(fn.b.query) = 1
    /\ fn.a.query[1].name = fn.b.query[1].name
    /\ fn.a.query[1].value # fn.b.query[1].value
    /\ fn.ka # fn.kb

\* C19 (as claimed): the key of a payload that holds "password": "<value>"
\* is the key of the payload with the placeholder in place of the field, so
\* that two payloads that differ in the password value only have one key.
C19_PasswordNotInKey ==
    fn.op = "graphql" => (fn.ka = fn.kp /\ fn.kb = fn.kp /\ fn.ka = fn.kb)

\* The part of C19 the code keeps: passwords without a quote character in
\* them do not reach the key.
C19_QuoteFreePasswordNotInKey ==
    (/\ fn.op = "graphql"
     /\ ~Includes(fn.parts.va, QUOTE)
     /\ ~Includes(fn.parts.vb, QUOTE))
        => (fn.ka = fn.kp /\ fn.kb = fn.kp)

\* C20: two requests equal in method, url, query and the three tracked
\* headers have the same key, whatever their authorization header and their
\* other headers are.
C20_OtherHeadersNotInKey ==
    (/\ fn.op = "rest"
     /\ fn.a.method = fn.b.method
     /\ fn.a.url = fn.b.url
     /\ fn.a.query = fn.b.query
     /\ TrackedHeaders(fn.a) = TrackedHeaders(fn.b))
        => fn.ka = fn.kb

\* Two requests that differ in the authorization header only.
C20_Witness ==
    /\ fn.op = "rest"
    /\ fn.a.method = fn.b.method
    /\ fn.a.url = fn.b.url
    /\ fn.a.query = fn.b.query
    /\ fn.a.query # <<>>
    /\ TrackedHeaders(fn.a) = TrackedHeaders(fn.b)
    /\ fn.a.headers.authorization # fn.b.headers.authorization
    /\ fn.a.headers.requestId # fn.b.headers.requestId
    /\ fn.ka = fn.kb

\* C21 (as claimed): init of the memory provider under a configured
\* max <= 0, size <= 0 or ttl < 0 throws and leaves the provider not ready;
\* no such bound, zero included, is replaced by a default.
C21_BoundErrorsSurfaced ==
    (/\ ptype = "memory"
     /\ last.op = "init"
     /\ (config.max <= 0 \/ config.size <= 0 \/ config.ttl < 0))
        => (last.res = ThrowResult /\ ~initialized /\ ~Ready(initialized))

\* The part of C21 the code keeps: a negative max, ttl or size makes init
\* throw, and the provider stays not ready whatever is called afterwards.
C21_NegativeBoundsSurfaced ==
    (/\ ptype = "memory"
     /\ (config.max < 0 \/ config.size < 0 \/ config.ttl < 0))
        => (/\ ~Ready(initialized)
            /\ store = <<>>
            /\ last.op = "init" => last.res = ThrowResult)

\* init has thrown under a negative bound, and a set called afterwards has
\* been refused.
C21_NegativeBoundReached ==
    /\ config.max < 0
    /\ hist.initThrew
    /\ last.op = "set"
    /\ last.res = NullResult
    /\ ~initialized

\* The store is a mapping: no key occurs twice in it.
WellFormed(st) == \A i, j \in 1..Len(st) : st[i].key = st[j].key => i = j

C22_QuietWitness ==
    /\ last.op = "reset"
    /\ last.res = TrueResult
    /\ Cardinality(last.listed) = 2
    /\ store = <<>>

\* C23 (as claimed): clearByRegexp on a ready provider whose backing store
\* answers deletes exactly the keys that match at least one pattern: no key
\* that remains matches a pattern, and every key that matched none is still
\* there with its value.
C23_ClearsExactlyMatching ==
    [][(last'.op = "clearByRegexp" /\ last'.reached /\ initialized) =>
        \A regExps \in ClearPatterns :
          CallClearByRegexp(regExps)
            => /\ \A k \in Keys(store') : ~Matches(regExps, k)
               /\ \A e \in Content(store) : ~Matches(regExps, e.key) => e \in Content(store')]_vars

\* The part of C23 the code keeps: with patterns that do not carry the
\* global flag exactly the matching keys are deleted, and with any patterns
\* no key that matches none is deleted.
C23_ClearsMatchingOfPlainPatterns ==
    [][(last'.op = "clearByRegexp" /\ last'.reached /\ initialized) =>
        \A regExps \in ClearPatterns :
          CallClearByRegexp(regExps)
            => /\ (\A i \in 1..Len(regExps) : ~regExps[i].global)
                     => \A k \in Keys(store') : ~Matches(regExps, k)
               /\ \A e \in Content(store) : ~Matches(regExps, e.key) => e \in Content(store')]_vars

\* clearByRegexp has deleted one of two stored keys and left the other.
C23_ClearReached ==
    /\ last.op = "clearByRegexp"
    /\ last.reached
    /\ Keys(store) = {<<"graphql:", "c">>}
    /\ hist.setAt[<<"graphql:", "c">>] >= 0

\* The entry stored under the key of the last call.
StoredEntry(st, call) == st[Get(Lookup(st, CalledKey(call)))]

\* C24 (as claimed): under every configured ttl >= 0, a set the Redis server
\* has answered stores the entry with an expiry of floor(ttl / 1000) seconds,
\* and without expiration (ttl 0 in the store) when floor(ttl / 1000) is 0,
\* a configured ttl of 0 included.
C24_RedisExpiryFloored ==
    [][(/\ ptype = "redis"
        /\ last'.op = "set"
        /\ last'.reached
        /\ last' # last
        /\ config.ttl >= 0)
          => StoredEntry(store', last').ttl = (config.ttl \div 1000) * 1000]_vars

\* The part of C24 the code keeps: under a configured ttl > 0 the entry is
\* stored with an expiry of floor(ttl / 1000) seconds, and without expiration
\* when that is 0.
C24_RedisExpiryOfPositiveTtl ==
    [][(/\ ptype = "redis"
        /\ last'.op = "set"
        /\ last'.reached
        /\ last' # last
        /\ config.ttl > 0)
          => StoredEntry(store', last').ttl = (config.ttl \div 1000) * 1000]_vars

\* Under a configured ttl of 500 an entry has been stored without expiration
\* and is returned 2000 ms later.
C24_NoExpiryReached ==
    /\ ptype = "redis"
    /\ config.ttl = 500
    /\ last.op = "get"
    /\ last.res.outcome = "value"
    /\ hist.setAt[CalledKey(last)] = 0
    /\ clock = 2000

\* C25 (as claimed): a request answered from the cache gets the body of the
\* stored entry and the status of the response the entry was stored from.
C25_HitReplaysStoredStatus ==
    \A r \in Reqs :
        LET q == req[r]
        IN  (q.path = "hit" /\ q.phase = "done")
              => /\ q.ctxBody = Get(q.cacheEntry.value).body
                 /\ \A out \in StatusOutcomes(Sanitize(q.payload)) :
                        out.body = Get(q.cacheEntry.value).body => q.ctxStatus = out.status

\* The part of C25 the code keeps: a request answered from the cache gets
\* the body of the stored entry, with status 200.
C25_HitReplaysStoredBody ==
    \A r \in Reqs :
        LET q == req[r]
        IN  (q.path = "hit" /\ q.phase = "done")
              => (q.ctxBody = Get(q.cacheEntry.value).body /\ q.ctxStatus = 200)

\* A request has been answered from the cache with the body of a response
\* whose status was 201.
C25_HitOfCreatedReached ==
    \E r \in Reqs :
        /\ req[r].path = "hit"
        /\ req[r].phase = "done"
        /\ req[r].ctxBody.data = <<14>>

\* C26: for a request whose payload holds the word IntrospectionQuery no
\* provider get and no provider set is issued and nothing done for it changes
\* the store, whatever its headers, method and url; the pipeline is invoked
\* for it, once, and the middleware returns (or the pipeline's exception
\* leaves it).
C26_IntrospectionBypassed ==
    \A r \in Reqs :
        LET q == req[r]
        IN  (q.phase # "idle" /\ Includes(q.payload, "IntrospectionQuery"))
              => /\ q.path = "introspection"
                 /\ q.getCalls = 0
                 /\ q.setCalls = 0
                 /\ ~q.wrote
                 /\ q.phase \in {"awaitNext", "done", "failed"}
                 /\ q.phase = "awaitNext" => q.nextCalls = 0
                 /\ Finished(q) => q.nextCalls = 1
                 /\ q.phase = "failed" => q.threw = "pipeline"

\* An introspection query sent by POST to /graphql, with no header that asks
\* for a bypass, has been answered 200 by the pipeline while the store holds
\* an entry.
C26_Witness ==
    \E r \in Reqs :
        /\ req[r].path = "introspection"
        /\ req[r].phase = "done"
        /\ req[r].method = "POST"
        /\ req[r].url = <<"/graphql">>
        /\ req[r].cacheControl = None
        /\ req[r].authorization = None
        /\ req[r].ctxStatus = 200
        /\ req[r].nextCalls = 1
        /\ Len(store) = 1

\* C27 (as claimed): a key another client wrote to the Redis database is
\* not in the list keys() returns, and is not deleted by reset() or by
\* clearByRegexp().
C27_ForeignKeysUntouched ==
    [][/\ last'.op = "keys" => ForeignKey \notin last'.listed
       /\ (last'.op \in {"reset", "clearByRegexp"} /\ ForeignKey \in Keys(store))
            => ForeignKey \in Keys(store')]_vars

\* The part of C27 the code keeps: init, set and del of the provider's keys
\* leave the key of the other client where it is.
C27_ForeignKeyKeptByKeyedCalls ==
    [][(last'.op \in {"init", "set", "del", "keys"} /\ ForeignKey \in Keys(store))
          => ForeignKey \in Keys(store')]_vars

\* reset of the ready Redis provider has returned true, and the database is
\* empty.
C27_FlushReached ==
    /\ ptype = "redis"
    /\ last.op = "reset"
    /\ last.res = TrueResult
    /\ store = <<>>
    /\ hist.initThrew = FALSE

\* The pipeline has answered the request with a response the middleware
\* stores: POST, a status in 200..299, a url that starts with /graphql.
StorableOutcome(q) ==
    /\ q.nextCalls = 1
    /\ ~q.pipe.threw
    /\ q.method = "POST"
    /\ q.pipe.status >= 200
    /\ q.pipe.status < 300
    /\ StartsWith(q.url, <<"/graphql">>)

\* C28 (as claimed): on the miss path a set is issued only for a storable
\* response; a request with a storable response that is not bypassed has,
\* when it ends, issued exactly one set, of an entry under the key of its
\* payload; in every other outcome nothing done for the request has changed
\* the store.
C28_SetOnlyForStorable ==
    \A r \in Reqs :
        LET q == req[r]
        IN  q.path = "miss"
              => /\ q.setCalls > 0 => StorableOutcome(q)
                 /\ (Finished(q) /\ StorableOutcome(q) /\ ~Bypassed(q))
                      => /\ q.setCalls = 1
                         /\ q.key = generateGraphqlCacheKey(q.payload)
                         /\ q.wrote => q.key \in Keys(store)
                 /\ (q.nextCalls = 1 /\ ~StorableOutcome(q)) => (q.setCalls = 0 /\ ~q.wrote)

\* The part of C28 the code keeps: the same, for the requests whose streamed
\* body can be captured.
C28_SetUnlessCaptureFails ==
    \A r \in Reqs :
        LET q == req[r]
        IN  q.path = "miss"
              => /\ q.setCalls > 0 => StorableOutcome(q)
                 /\ (Finished(q) /\ StorableOutcome(q) /\ ~Bypassed(q) /\ ~CaptureFails(q))
                      => /\ q.setCalls = 1
                         /\ q.key = generateGraphqlCacheKey(q.payload)
                         /\ q.wrote => q.key \in Keys(store)
                 /\ (q.nextCalls = 1 /\ ~StorableOutcome(q)) => (q.setCalls = 0 /\ ~q.wrote)

\* A miss has ended with its response stored under its key, and a miss with
\* an error status has ended with nothing stored.
C28_StoredReached ==
    \E r \in Reqs :
        /\ req[r].path = "miss"
        /\ req[r].phase = "done"
        /\ req[r].setCalls = 1
        /\ req[r].wrote
        /\ req[r].key \in Keys(store)

\* The set of the request has written: the LRU cache returned itself, or the
\* Redis server answered.
SetWrote(q) == q.setCalls = 1 /\ q.setRes.outcome \in {"cache", "value"}

\* The entries the store holds under the key.
EntriesUnder(st, key) == {i \in 1..Len(st) : st[i].key = key}

\* C29: when two requests with the same key are in flight together and both
\* miss, each runs the pipeline once and, its response being storable, each
\* issues one set; once both have completed the store holds at most one
\* entry under the key, and when a set has written it holds exactly one,
\* which is the entry one of the two requests gave to set. The two are the
\* only requests the server has accepted: a request before them could have
\* left its own entry, or evicted theirs.
C29_ConcurrentMissesBenign ==
    \A r, o \in Reqs :
        LET q == req[r]
            p == req[o]
        IN  (/\ r # o
             /\ started = 2
             /\ q.key = p.key
             /\ q.path = "miss" /\ p.path = "miss"
             /\ q.phase = "done" /\ p.phase = "done"
             /\ StorableOutcome(q) /\ StorableOutcome(p))
              => /\ q.nextCalls = 1 /\ p.nextCalls = 1
                 /\ q.setCalls = 1 /\ p.setCalls = 1
                 /\ Cardinality(EntriesUnder(store, q.key)) <= 1
                 /\ (SetWrote(q) \/ SetWrote(p))
                      => /\ Cardinality(EntriesUnder(store, q.key)) = 1
                         /\ \A i \in EntriesUnder(store, q.key) :
                              \E w \in {q, p} :
                                  /\ SetWrote(w)
                                  /\ store[i].val \in {Get(w.setVal), JsonStringify(Get(w.setVal))}

\* Two requests with the same key have both missed and both stored, the two
\* responses differ, and the store holds one of them.
C29_Witness ==
    \E r, o \in Reqs :
        /\ r # o
        /\ req[r].key = req[o].key
        /\ req[r].path = "miss" /\ req[o].path = "miss"
        /\ req[r].phase = "done" /\ req[o].phase = "done"
        /\ SetWrote(req[r]) /\ SetWrote(req[o])
        /\ req[r].setVal # req[o].setVal
        /\ Len(store) = 1
        /\ store[1].key = req[r].key

\* C30 (as claimed): a request whose payload is a mutation is passed to the
\* pipeline, is never answered from the cache, and no set is issued for it.
C30_MutationsNotCached ==
    \A r \in Reqs :
        LET q == req[r]
        IN  (q.phase # "idle" /\ Includes(q.payload, "mutation"))
              => /\ q.path # "hit"
                 /\ q.setCalls = 0
                 /\ q.phase = "done" => q.nextCalls = 1

\* The part of C30 the code keeps: a mutation sent with an authorization
\* header is passed to the pipeline and not stored, unless the plugin caches
\* authorized requests.
C30_AuthorizedMutationsNotCached ==
    \A r \in Reqs :
        LET q == req[r]
        IN  (q.phase # "idle" /\ Includes(q.payload, "mutation") /\ AuthorizedBypass(q))
              => /\ q.path # "hit"
                 /\ q.setCalls = 0
                 /\ q.phase = "done" => q.nextCalls = 1

\* A mutation has been answered from the cache, the pipeline not invoked.
C30_MutationHitReached ==
    \E r \in Reqs :
        /\ req[r].payload = PayloadMutation
        /\ req[r].path = "hit"
        /\ req[r].phase = "done"
        /\ req[r].nextCalls = 0

====
